---- MODULE Spec2Model ----
(***************************************************************************)
(* A model of src/RungeKutta.py: the fixed-step RK4 integrator             *)
(* RungeKutta(T, y0, delta_t) with its stepping pass iterate() and its two *)
(* result views get_paths() and get_diff_paths().                          *)
(*                                                                         *)
(* Numbers are Python floats (IEEE-754 binary64, round to nearest, ties to *)
(* even).  A float is modelled exactly: sign, 53-bit significand, binary   *)
(* exponent.  Significands do not fit TLC's integers, so they are kept as  *)
(* little-endian sequences of 15-bit limbs.  Exponents are unbounded: the  *)
(* model has no overflow, no subnormals, no infinities and no NaN, and one *)
(* zero (the sign of zero is not kept).                                    *)
(***************************************************************************)
EXTENDS Integers, Sequences, FiniteSets, TLC

(***************************************************************************)
(* Natural numbers of any size: little-endian sequences of limbs.          *)
(***************************************************************************)
LimbBits == 15
Base == 2^LimbBits

Max(a, b) == IF a >= b THEN a ELSE b
Min(a, b) == IF a <= b THEN a ELSE b

Limb(a, i) == IF i <= Len(a) THEN a[i] ELSE 0

RECURSIVE BnStrip(_)
BnStrip(a) ==
  IF a = <<>> THEN <<>>
  ELSE IF a[Len(a)] = 0 THEN BnStrip(SubSeq(a, 1, Len(a) - 1))
  ELSE a

BnPad(a, n) == [i \in 1..n |-> Limb(a, i)]

RECURSIVE BnAddFrom(_, _, _, _)
BnAddFrom(a, b, i, c) ==
  IF i > Len(a) /\ i > Len(b)
  THEN (IF c = 0 THEN <<>> ELSE <<c>>)
  ELSE LET s == Limb(a, i) + Limb(b, i) + c
       IN  <<s % Base>> \o BnAddFrom(a, b, i + 1, s \div Base)

BnAdd(a, b) == BnAddFrom(a, b, 1, 0)

\* a - b for a >= b
RECURSIVE BnSubFrom(_, _, _, _)
BnSubFrom(a, b, i, brw) ==
  IF i > Len(a) THEN <<>>
  ELSE LET d == Limb(a, i) - Limb(b, i) - brw
       IN  IF d < 0 THEN <<d + Base>> \o BnSubFrom(a, b, i + 1, 1)
           ELSE <<d>> \o BnSubFrom(a, b, i + 1, 0)

BnSub(a, b) == BnSubFrom(a, b, 1, 0)

\* -1, 0, 1 as a < b, a = b, a > b
RECURSIVE BnCmpFrom(_, _, _)
BnCmpFrom(a, b, i) ==
  IF i = 0 THEN 0
  ELSE IF Limb(a, i) < Limb(b, i) THEN -1
  ELSE IF Limb(a, i) > Limb(b, i) THEN 1
  ELSE BnCmpFrom(a, b, i - 1)

BnCmp(a, b) == BnCmpFrom(a, b, Max(Len(a), Len(b)))

BnIsZero(a) == \A i \in 1..Len(a) : a[i] = 0

\* a * s + c for a limb s
RECURSIVE BnMulSmallFrom(_, _, _, _)
BnMulSmallFrom(a, s, i, c) ==
  IF i > Len(a)
  THEN (IF c = 0 THEN <<>> ELSE <<c>>)
  ELSE LET p == a[i] * s + c
       IN  <<p % Base>> \o BnMulSmallFrom(a, s, i + 1, p \div Base)

BnMulSmall(a, s) == BnMulSmallFrom(a, s, 1, 0)

RECURSIVE BnMulFrom(_, _, _)
BnMulFrom(a, b, j) ==
  IF j > Len(b) THEN <<>>
  ELSE BnAdd(BnMulSmall(a, b[j]), <<0>> \o BnMulFrom(a, b, j + 1))

BnMul(a, b) == BnMulFrom(a, b, 1)

\* quotient and remainder of a by d, 0 < d < Base
RECURSIVE BnDivSmallFrom(_, _, _, _)
BnDivSmallFrom(a, d, i, r) ==
  IF i = 0 THEN [q |-> <<>>, r |-> r]
  ELSE LET cur  == r * Base + a[i]
           rest == BnDivSmallFrom(a, d, i - 1, cur % d)
       IN  [q |-> rest.q \o <<cur \div d>>, r |-> rest.r]

BnDivSmall(a, d) == BnDivSmallFrom(a, d, Len(a), 0)

RECURSIVE IntBitLen(_)
IntBitLen(n) == IF n = 0 THEN 0 ELSE 1 + IntBitLen(n \div 2)

BnBitLen(a) ==
  LET s == BnStrip(a)
  IN  IF s = <<>> THEN 0 ELSE LimbBits * (Len(s) - 1) + IntBitLen(s[Len(s)])

BnShl(a, n) ==
  [i \in 1..(n \div LimbBits) |-> 0] \o BnMulSmall(a, 2^(n % LimbBits))

BnShr(a, n) ==
  LET k == n \div LimbBits
  IN  IF k >= Len(a) THEN <<>>
      ELSE BnDivSmall(SubSeq(a, k + 1, Len(a)), 2^(n % LimbBits)).q

\* bit n of a, bit 0 the lowest
BnBit(a, n) == (Limb(a, (n \div LimbBits) + 1) \div 2^(n % LimbBits)) % 2

\* whether a bit below bit n is set
BnLowNonzero(a, n) ==
  \/ \E i \in 1..Min(n \div LimbBits, Len(a)) : a[i] # 0
  \/ Limb(a, (n \div LimbBits) + 1) % 2^(n % LimbBits) # 0

(***************************************************************************)
(* Python floats.  [s, e, m] is (-1)^s * m * 2^e with 2^52 <= m < 2^53,    *)
(* or zero.  The form is canonical: two floats are equal as numbers iff    *)
(* they are equal as records.                                              *)
(***************************************************************************)
MantBits == 53
MantLimbs == (MantBits + LimbBits - 1) \div LimbBits
AlignMax == MantBits + 3

FZero == [s |-> 0, e |-> 0, m |-> BnPad(<<>>, MantLimbs)]

FIsZero(a) == BnIsZero(a.m)

\* (-1)^s * (big + a fraction, nonzero iff sticky) * 2^e, rounded to
\* nearest, ties to even
FRound(s, big, e, sticky) ==
  LET L == BnBitLen(big)
  IN  IF L = 0 THEN FZero
      ELSE IF L <= MantBits
      THEN [s |-> s, e |-> e - (MantBits - L),
            m |-> BnPad(BnShl(BnStrip(big), MantBits - L), MantLimbs)]
      ELSE LET sh == L - MantBits
               q  == BnShr(big, sh)
               rb == BnBit(big, sh - 1)
               st == sticky \/ BnLowNonzero(big, sh - 1)
               up == rb = 1 /\ (st \/ BnBit(q, 0) = 1)
               q1 == IF up THEN BnAdd(q, <<1>>) ELSE q
           IN  IF BnBitLen(q1) > MantBits
               THEN [s |-> s, e |-> e + sh + 1,
                     m |-> BnPad(BnShr(q1, 1), MantLimbs)]
               ELSE [s |-> s, e |-> e + sh, m |-> BnPad(q1, MantLimbs)]

FNeg(a) == IF FIsZero(a) THEN a ELSE [a EXCEPT !.s = 1 - a.s]

FAdd(a, b) ==
  IF FIsZero(a) THEN b
  ELSE IF FIsZero(b) THEN a
  ELSE IF a.e - b.e > AlignMax THEN a
  ELSE IF b.e - a.e > AlignMax THEN b
  ELSE LET el == Min(a.e, b.e)
           A  == BnShl(a.m, a.e - el)
           B  == BnShl(b.m, b.e - el)
           c  == BnCmp(A, B)
       IN  IF a.s = b.s THEN FRound(a.s, BnAdd(A, B), el, FALSE)
           ELSE IF c = 0 THEN FZero
           ELSE IF c > 0 THEN FRound(a.s, BnSub(A, B), el, FALSE)
           ELSE FRound(b.s, BnSub(B, A), el, FALSE)

FSub(a, b) == FAdd(a, FNeg(b))

FMul(a, b) ==
  IF FIsZero(a) \/ FIsZero(b) THEN FZero
  ELSE FRound((a.s + b.s) % 2, BnMul(a.m, b.m), a.e + b.e, FALSE)

\* a / d for the float of an integer d, 0 < d < Base
FDivInt(a, d) ==
  IF FIsZero(a) THEN FZero
  ELSE LET qr == BnDivSmall(BnShl(a.m, 2 * LimbBits), d)
       IN  FRound(a.s, qr.q, a.e - 2 * LimbBits, qr.r # 0)

FLess(a, b) ==
  LET d == FSub(a, b) IN ~FIsZero(d) /\ d.s = 1

FLeq(a, b) == a = b \/ FLess(a, b)

\* the float of the integer n, |n| < Base
FInt(n) ==
  IF n = 0 THEN FZero
  ELSE FRound(IF n < 0 THEN 1 ELSE 0, <<IF n < 0 THEN -n ELSE n>>, 0, FALSE)

\* the float nearest to n / d: what the literal n/d (0.1 for 1/10) denotes
FRat(n, d) == FDivInt(FInt(n), d)

(***************************************************************************)
(* Python and numpy values: None, a float, a 1-D array of floats, or a     *)
(* raised exception (tag is then the exception's class).                   *)
(***************************************************************************)
NoneO == [tag |-> "none", v |-> <<>>]
Sc(x) == [tag |-> "scalar", v |-> <<x>>]
Arr(v) == [tag |-> "array", v |-> v]
Raise(kind) == [tag |-> kind, v |-> <<>>]
IsErr(o) == o.tag \notin {"none", "scalar", "array"}

\* c * x for a float c
NumMul(c, x) ==
  IF IsErr(x) THEN x
  ELSE IF x.tag = "none" THEN Raise("TypeError")
  ELSE [x EXCEPT !.v = [i \in DOMAIN x.v |-> FMul(c, x.v[i])]]

\* x / 2
NumDiv2(x) ==
  IF IsErr(x) THEN x
  ELSE IF x.tag = "none" THEN Raise("TypeError")
  ELSE [x EXCEPT !.v = [i \in DOMAIN x.v |-> FDivInt(x.v[i], 2)]]

\* x + y with numpy's broadcasting: a float or a length-1 array stretches to
\* the other operand's length, any other two lengths do not combine
NumAdd(x, y) ==
  IF IsErr(x) THEN x
  ELSE IF IsErr(y) THEN y
  ELSE IF x.tag = "none" \/ y.tag = "none" THEN Raise("TypeError")
  ELSE LET n == Len(x.v)
           m == Len(y.v)
       IN  IF n # m /\ n # 1 /\ m # 1 THEN Raise("ValueError")
           ELSE [tag |-> IF x.tag = "scalar" /\ y.tag = "scalar"
                         THEN "scalar" ELSE "array",
                 v |-> [i \in 1..Max(n, m) |->
                          FAdd(x.v[IF n = 1 THEN 1 ELSE i],
                               y.v[IF m = 1 THEN 1 ELSE i])]]

\* yn += z: z may stretch to yn's length, yn never grows
InPlaceAdd(ynv, z) ==
  IF IsErr(z) THEN z
  ELSE IF z.tag = "none" THEN Raise("TypeError")
  ELSE IF Len(z.v) # Len(ynv) /\ Len(z.v) # 1 THEN Raise("ValueError")
  ELSE Arr([i \in 1..Len(ynv) |->
              FAdd(ynv[i], z.v[IF Len(z.v) = 1 THEN 1 ELSE i])])

(***************************************************************************)
(* The trajectory buffers.  self.t is a list until iterate() returns and   *)
(* an ndarray afterwards; self.paths is an ndarray of 1 or 2 dimensions,   *)
(* kept as its rows (a 1-D array is its one row).                          *)
(***************************************************************************)
NoTimes == [kind |-> "none", v |-> <<>>]
NoArray == [nd |-> 0, rows |-> <<>>]

Shape(p) ==
  IF p.nd = 1 THEN <<Len(p.rows[1])>>
  ELSE <<Len(p.rows), IF p.rows = <<>> THEN 0 ELSE Len(p.rows[1])>>

\* TAppend had self.t stayed a list after iterate()
TAppend_kept_list(tt, x) == [tt EXCEPT !.v = Append(tt.v, x)]

\* self.t.append(x): lists append, ndarrays have no append
TAppend(tt, x) ==
  IF tt.kind = "list" THEN [tt EXCEPT !.v = Append(tt.v, x)]
  ELSE [kind |-> "AttributeError", v |-> tt.v]

\* np.vstack([p, row]): the columns must agree
VStack(p, row) ==
  IF Shape(p)[p.nd] # Len(row) THEN [nd |-> -1, rows |-> p.rows]
  ELSE [nd |-> 2, rows |-> Append(p.rows, row)]

\* p.T: a 1-D array is its own transpose
Transpose(p) ==
  IF p.nd = 1 THEN p
  ELSE [nd |-> 2,
        rows |-> [j \in 1..Shape(p)[2] |->
                    [i \in 1..Shape(p)[1] |-> p.rows[i][j]]]]

\* np.diff(p, axis=1): a 1-D array has no axis 1
Diff1(p) ==
  IF p.nd = 1 THEN [nd |-> -1, rows |-> <<>>]
  ELSE [nd |-> 2,
        rows |-> [i \in 1..Shape(p)[1] |->
                    [j \in 1..(Shape(p)[2] - 1) |->
                       FSub(p.rows[i][j + 1], p.rows[i][j])]]]

\* tt[:-1]
DropLast(tt) == [tt EXCEPT !.v = SubSeq(tt.v, 1, Len(tt.v) - 1)]

(***************************************************************************)
(* Bounds and inputs.                                                      *)
(***************************************************************************)
\* loop iterations of one iterate() the model follows: a pass that needs
\* more (a step size <= 0 never ends the loop) is followed no further
StepCap == 12
\* calls of iterate() on one object
MaxPasses == 2

F0 == FZero
F1 == FInt(1)

\* end times T: -1, 0, 1
TSet == {FInt(-1), F0, F1}
\* step sizes delta_t: 0.1, 0.3, 0.5, 1, 1.25, 0, -0.5
DtSet == {FRat(1, 10), FRat(3, 10), FRat(1, 2), F1, FRat(5, 4), F0, FRat(-1, 2)}
\* initial points y0: [1.0], [1.0, 0.0]
Y0Set == {<<F1>>, <<F1, F0>>}
\* the params attribute: the class default None, or a payload
ParamSet == {"None", "payload"}

\* The derivative functions a caller binds: "unbound" is the class's own f,
\* "zero", "decay" (-y), "osc" ((y2, -y1)) and "clock" ((t, .., t)) return
\* k numbers, "short" returns a length-1 array, "scalar" a float and "long"
\* k + 1 numbers.
FKinds(kk) ==
  {"unbound", "zero", "decay", "clock", "scalar", "long"}
    \cup (IF kk >= 2 THEN {"osc", "short"} ELSE {})

VARIABLES
  T,        \* self.T
  y0,       \* self.y0: the caller's array itself
  k,        \* self.k
  delta_t,  \* self.delta_t
  fkind,    \* which f the object has
  params,   \* self.params
  t,        \* self.t
  paths,    \* self.paths
  pc,       \* "idle": no call in progress; inside iterate(): "loop" at the
            \* loop test, "k2", "k3", "k4" before that call of f, "update"
            \* after the fourth
  tn,       \* iterate()'s local tn
  yn,       \* iterate()'s local yn
  steps,    \* loop iterations completed by the current or last iterate()
  calls,    \* the calls of f made by the current or last loop iteration
  passes,   \* calls of iterate() so far
  done,     \* calls of iterate() that returned
  ret       \* what the last call returned or raised

vars == <<T, y0, k, delta_t, fkind, params, t, paths, pc, tn, yn, steps,
          calls, passes, done, ret>>

config == <<T, y0, k, delta_t, fkind, params>>

\* f(tt, y, p) for each kind of f; y is an array
FApply(fk, kk, tt, y, p) ==
  CASE fk = "unbound" -> NoneO
    [] fk = "zero"    -> Arr([i \in 1..kk |-> F0])
    [] fk = "decay"   -> Arr([i \in DOMAIN y.v |-> FNeg(y.v[i])])
    [] fk = "osc"     -> Arr(<<y.v[2], FNeg(y.v[1])>>)
    [] fk = "clock"   -> Arr([i \in 1..kk |-> tt])
    [] fk = "short"   -> Arr(<<F1>>)
    [] fk = "scalar"  -> Sc(F1)
    [] fk = "long"    -> Arr([i \in 1..(kk + 1) |-> F1])

\* the payload a call of f is given
ParamsArg(p) == p

\* one call self.f(tt, y, self.params), as the log keeps it
Call(tt, y) == [t |-> tt, y |-> y, p |-> ParamsArg(params),
                r |-> FApply(fkind, k, tt, y, ParamsArg(params))]

Returned(op, err, times, states) ==
  [op |-> op, err |-> err, times |-> times, states |-> states]

\* __init__
Init ==
  /\ T \in TSet
  /\ delta_t \in DtSet
  /\ y0 \in Y0Set
  /\ k = Len(y0)
  /\ fkind \in FKinds(k)
  /\ params \in ParamSet
  /\ t = [kind |-> "list", v |-> <<F0>>]
  /\ paths = [nd |-> 1, rows |-> <<y0>>]
  /\ pc = "idle"
  /\ tn = F0
  /\ yn = <<>>
  /\ steps = 0
  /\ calls = <<>>
  /\ passes = 0
  /\ done = 0
  /\ ret = Returned("__init__", "none", NoTimes, NoArray)

\* LoopCond as while tn <= self.T
LoopCond_leq(tnv, Tv) == FLeq(tnv, Tv)

\* while tn < self.T
LoopCond(tnv, Tv) == FLess(tnv, Tv)

\* K1Time by the textbook: the time the step departs from
K1Time_departure(tnv, h) == tnv

\* the time k1 is evaluated at: tn, which tn += self.delta_t has advanced
\* from tnv
K1Time(tnv, h) == FAdd(tnv, h)

\* the state k2 and k3 are evaluated at: yn + self.delta_t * kp / 2
HalfArg(ynv, h, kp) == NumAdd(Arr(ynv), NumDiv2(NumMul(h, kp)))

\* the state k4 is evaluated at: yn + self.delta_t * k3
FullArg(ynv, h, kp) == NumAdd(Arr(ynv), NumMul(h, kp))

\* 1.0 / 6 * self.delta_t
Coef(h) == FMul(FDivInt(F1, 6), h)

\* k1 + 2 * k2 + 2 * k3 + k4
Weighted(k1, k2, k3, k4) ==
  NumAdd(NumAdd(NumAdd(k1, NumMul(FInt(2), k2)), NumMul(FInt(2), k3)), k4)

\* yn += 1.0 / 6 * self.delta_t * (k1 + 2 * k2 + 2 * k3 + k4)
Update(ynv, h, cs) ==
  InPlaceAdd(ynv, NumMul(Coef(h), Weighted(cs[1].r, cs[2].r, cs[3].r, cs[4].r)))

\* iterate() is called: tn = 0, yn = self.y0.copy()
IterateCall ==
  /\ pc = "idle"
  /\ passes < MaxPasses
  /\ pc' = "loop"
  /\ passes' = passes + 1
  /\ tn' = F0
  /\ yn' = y0
  /\ steps' = 0
  /\ calls' = <<>>
  /\ ret' = Returned("iterate", "pending", NoTimes, NoArray)
  /\ UNCHANGED <<config, t, paths, done>>

\* an exception leaves iterate(): the buffers stay as they are
Raised(kind) ==
  /\ pc' = "idle"
  /\ tn' = F0
  /\ yn' = <<>>
  /\ ret' = Returned("iterate", kind, NoTimes, NoArray)

\* the loop test passes: tn += self.delta_t; k1 = self.f(tn, yn, self.params)
IterK1 ==
  /\ pc = "loop"
  /\ LoopCond(tn, T)
  /\ steps < StepCap
  /\ tn' = FAdd(tn, delta_t)
  /\ calls' = <<Call(K1Time(tn, delta_t), Arr(yn))>>
  /\ pc' = "k2"
  /\ UNCHANGED <<config, t, paths, yn, steps, passes, done, ret>>

\* k2 = self.f(tn + self.delta_t / 2, yn + self.delta_t * k1 / 2, self.params)
IterK2 ==
  /\ pc = "k2"
  /\ \E a \in {HalfArg(yn, delta_t, calls[1].r)} :
       IF IsErr(a)
       THEN Raised(a.tag) /\ UNCHANGED calls
       ELSE /\ calls' = Append(calls, Call(FAdd(tn, FDivInt(delta_t, 2)), a))
            /\ pc' = "k3"
            /\ UNCHANGED <<tn, yn, ret>>
  /\ UNCHANGED <<config, t, paths, steps, passes, done>>

\* k3 = self.f(tn + self.delta_t / 2, yn + self.delta_t * k2 / 2, self.params)
IterK3 ==
  /\ pc = "k3"
  /\ \E a \in {HalfArg(yn, delta_t, calls[2].r)} :
       IF IsErr(a)
       THEN Raised(a.tag) /\ UNCHANGED calls
       ELSE /\ calls' = Append(calls, Call(FAdd(tn, FDivInt(delta_t, 2)), a))
            /\ pc' = "k4"
            /\ UNCHANGED <<tn, yn, ret>>
  /\ UNCHANGED <<config, t, paths, steps, passes, done>>

\* k4 = self.f(tn + self.delta_t, yn + self.delta_t * k3, self.params)
IterK4 ==
  /\ pc = "k4"
  /\ \E a \in {FullArg(yn, delta_t, calls[3].r)} :
       IF IsErr(a)
       THEN Raised(a.tag) /\ UNCHANGED calls
       ELSE /\ calls' = Append(calls, Call(FAdd(tn, delta_t), a))
            /\ pc' = "update"
            /\ UNCHANGED <<tn, yn, ret>>
  /\ UNCHANGED <<config, t, paths, steps, passes, done>>

\* yn += ...; self.t.append(tn); self.paths = np.vstack([self.paths, yn])
IterUpdate ==
  /\ pc = "update"
  /\ \E y1 \in {Update(yn, delta_t, calls)} :
     \E t1 \in {TAppend(t, tn)} :
       IF IsErr(y1)
       THEN Raised(y1.tag) /\ UNCHANGED <<t, paths, steps>>
       ELSE IF t1.kind = "AttributeError"
       THEN Raised(t1.kind) /\ UNCHANGED <<t, paths, steps>>
       ELSE \E p1 \in {VStack(paths, y1.v)} :
              IF p1.nd < 0
              THEN Raised("ValueError") /\ t' = t1 /\ UNCHANGED <<paths, steps>>
              ELSE /\ t' = t1
                   /\ paths' = p1
                   /\ yn' = y1.v
                   /\ steps' = steps + 1
                   /\ pc' = "loop"
                   /\ UNCHANGED <<tn, ret>>
  /\ UNCHANGED <<config, calls, passes, done>>

\* the loop ends: self.t = np.array(self.t); self.paths = self.paths.T
IterExit ==
  /\ pc = "loop"
  /\ ~LoopCond(tn, T)
  /\ t' = [kind |-> "ndarray", v |-> t.v]
  /\ paths' = Transpose(paths)
  /\ pc' = "idle"
  /\ tn' = F0
  /\ yn' = <<>>
  /\ done' = done + 1
  /\ ret' = Returned("iterate", "none", NoTimes, NoArray)
  /\ UNCHANGED <<config, steps, calls, passes>>

get_paths ==
  /\ pc = "idle"
  /\ ret' = Returned("get_paths", "none", t, paths)
  /\ UNCHANGED <<config, t, paths, pc, tn, yn, steps, calls, passes, done>>

get_diff_paths ==
  /\ pc = "idle"
  /\ \E d \in {Diff1(paths)} :
       ret' = IF d.nd < 0
              THEN Returned("get_diff_paths", "AxisError", NoTimes, NoArray)
              ELSE Returned("get_diff_paths", "none", DropLast(t), d)
  /\ UNCHANGED <<config, t, paths, pc, tn, yn, steps, calls, passes, done>>

iterate ==
  \/ IterateCall
  \/ IterK1
  \/ IterK2
  \/ IterK3
  \/ IterK4
  \/ IterUpdate
  \/ IterExit

Next ==
  \/ iterate
  \/ get_paths
  \/ get_diff_paths

Spec == Init /\ [][Next]_vars

(***************************************************************************)
(* The claims.                                                             *)
(***************************************************************************)
Positive(x) == FLess(F0, x)

\* iterate() has just returned normally
Completed == pc = "idle" /\ ret.op = "iterate" /\ ret.err = "none"

Last(q) == q[Len(q)]

\* the samples recorded while the loop runs: the rows of self.paths
NSamples == IF paths.nd = 1 THEN 1 ELSE Len(paths.rows)

\* elementwise arithmetic on vectors of one length
VAdd(u, w) == [i \in 1..Len(u) |-> FAdd(u[i], w[i])]
VScale(c, u) == [i \in 1..Len(u) |-> FMul(c, u[i])]
VHalf(u) == [i \in 1..Len(u) |-> FDivInt(u[i], 2)]

\* C1: with T > 0 and delta_t <= 0 the stepping pass is rejected with an
\* "invalid step size" error: it completes no loop iteration, calls f never,
\* and when it ends it ends with that error.
C1_InvalidStepSizeRejected ==
  (Positive(T) /\ FLeq(delta_t, F0)) =>
    /\ steps = 0
    /\ calls = <<>>
    /\ (pc = "idle" /\ ret.op = "iterate") => ret.err = "InvalidStepSize"

\* the smallest n >= 1 with n * delta_t >= T, n * delta_t as Python
\* evaluates it (looked for up to the model's cap)
RECURSIVE CeilSteps(_)
CeilSteps(n) ==
  IF n >= StepCap \/ ~FLess(FMul(FInt(n), delta_t), T) THEN n
  ELSE CeilSteps(n + 1)

\* the number of additions of delta_t to s after which the running sum,
\* rounded as tn += delta_t rounds it, is no longer < T
RECURSIVE FirstReach(_, _)
FirstReach(s, n) ==
  IF n >= StepCap \/ ~FLess(s, T) THEN n
  ELSE FirstReach(FAdd(s, delta_t), n + 1)

SeedOnly ==
  /\ pc = "idle"
  /\ Len(t.v) = 1
  /\ passes = 0 \/ (done >= 1 /\ done = passes)

\* C3: with only the seed point recorded both views return a result and no
\* error: get_paths() the times [0] and y0 as a k x 1 matrix,
\* get_diff_paths() an empty time sequence and an empty k x 0 matrix.
C3_SeedOnlyViewsDefined ==
  SeedOnly =>
    /\ ret.op = "get_paths" =>
         /\ ret.err = "none"
         /\ ret.times.v = <<F0>>
         /\ ret.states = [nd |-> 2, rows |-> [i \in 1..k |-> <<y0[i]>>]]
    /\ ret.op = "get_diff_paths" =>
         /\ ret.err = "none"
         /\ ret.times.v = <<>>
         /\ ret.states = [nd |-> 2, rows |-> [i \in 1..k |-> <<>>]]

\* C4: after construction and after every completed loop iteration as many
\* times as state vectors are recorded, 1 + the number of completed steps,
\* every state vector has k components, and after a completed run
\* get_paths() returns N times and a k x N matrix.
C4_BuffersInLockstep ==
  /\ (passes = 0 \/ (passes = 1 /\ pc # "idle")) =>
       /\ Len(t.v) = 1 + steps
       /\ NSamples = 1 + steps
       /\ \A i \in 1..Len(paths.rows) : Len(paths.rows[i]) = k
  /\ (pc = "idle" /\ done >= 1 /\ ret.op = "get_paths") =>
       /\ ret.err = "none"
       /\ Len(ret.times.v) = 1 + steps
       /\ ret.states.nd = 2
       /\ Shape(ret.states) = <<k, 1 + steps>>

\* C5: iterate() with T > 0 and f not bound fails with a "not implemented"
\* error on the first step: no step is completed, no sample recorded, and
\* the error is of that kind and no other.
C5_UnboundFailsNotImplemented ==
  (fkind = "unbound" /\ Positive(T)) =>
    /\ steps = 0
    /\ Len(t.v) = 1
    /\ (pc = "idle" /\ ret.op = "iterate") => ret.err = "NotImplementedError"

\* what f returned has not k components
WrongLength(r) ==
  \/ r.tag = "array" /\ Len(r.v) # k
  \/ r.tag = "scalar" /\ k > 1

\* C6: a call of f that returns a vector of a length other than k (a
\* length-1 vector or a scalar with k > 1 included) makes the pass fail with
\* a dimension mismatch there: no later call of f follows it, no sample is
\* recorded after it, and the pass ends with that error (numpy's
\* ValueError is taken for it).
C6_WrongLengthFailsAtCall ==
  \A i \in 1..Len(calls) :
    WrongLength(calls[i].r) =>
      /\ i = Len(calls)
      /\ pc # "loop"
      /\ (pc = "idle" /\ ret.op = "iterate") => ret.err = "ValueError"

\* C7: after a completed pass with N samples get_diff_paths() returns the
\* first N - 1 times and the k x (N - 1) matrix of the differences of
\* consecutive columns of get_paths()'s states; T = 1, y0 = [1],
\* delta_t = 1, f = 0 gives times [0], differences [[0]].
C7_DiffIsConsecutiveDifference ==
  (pc = "idle" /\ done >= 1 /\ ret.op = "get_diff_paths") =>
    /\ ret.err = "none"
    /\ ret.times.v = SubSeq(t.v, 1, Len(t.v) - 1)
    /\ ret.states.nd = 2
    /\ ret.states.rows =
         [r \in 1..k |-> [i \in 1..(Len(t.v) - 1) |->
            FSub(paths.rows[r][i + 1], paths.rows[r][i])]]
    /\ (T = F1 /\ y0 = <<F1>> /\ delta_t = F1 /\ fkind = "zero") =>
         (ret.times.v = <<F0>> /\ ret.states.rows = << <<F0>> >>)

\* a loop iteration of the first pass has just completed, every call of f
\* in it having returned k numbers
StepCompleted ==
  /\ pc = "loop"
  /\ steps >= 1
  /\ \A i \in 1..Len(calls) : calls[i].r.tag = "array" /\ Len(calls[i].r.v) = k

\* the four calls and the sample of the iteration just completed, for the
\* coefficient c that multiplies k1 + 2*k2 + 2*k3 + k4
StagesWith(c) ==
  LET N   == Len(t.v)
      tnn == t.v[N]
      yp  == paths.rows[N - 1]
      h   == delta_t
      k1  == calls[1].r.v
      k2  == calls[2].r.v
      k3  == calls[3].r.v
      k4  == calls[4].r.v
  IN  /\ Len(calls) = 4
      /\ tnn = FAdd(t.v[N - 1], h)
      /\ tn = tnn
      /\ calls[1].t = tnn
      /\ calls[1].y = Arr(yp)
      /\ calls[2].t = FAdd(tnn, FDivInt(h, 2))
      /\ calls[2].y = Arr(VAdd(yp, VHalf(VScale(h, k1))))
      /\ calls[3].t = FAdd(tnn, FDivInt(h, 2))
      /\ calls[3].y = Arr(VAdd(yp, VHalf(VScale(h, k2))))
      /\ calls[4].t = FAdd(tnn, h)
      /\ calls[4].y = Arr(VAdd(yp, VScale(h, k3)))
      /\ paths.rows[N] =
           VAdd(yp, VScale(c, VAdd(VAdd(VAdd(k1, VScale(FInt(2), k2)),
                                        VScale(FInt(2), k3)), k4)))
      /\ \A i \in 1..4 : calls[i].p = params

\* C8 as stated: each step advances tn by delta_t, then calls f four times,
\* at (tn, y), (tn + delta_t/2, y + delta_t*k1/2), (tn + delta_t/2,
\* y + delta_t*k2/2), (tn + delta_t, y + delta_t*k3), tn the advanced time
\* and y the previous state, every call with params, and records
\* (tn, y + (delta_t/6)*(k1 + 2*k2 + 2*k3 + k4)).
C8_StagesCoefDeltaOverSix ==
  StepCompleted => StagesWith(FDivInt(delta_t, 6))

\* C8, amended: the same, the coefficient being (1.0/6)*delta_t, which is
\* what the step computes and not for every delta_t the float delta_t/6.
C8_StagesCoefSixthTimesDelta ==
  StepCompleted => StagesWith(FMul(FDivInt(F1, 6), delta_t))

\* a step of the harmonic oscillator with delta_t = 1.25, for which
\* (1.0/6)*delta_t and delta_t/6 are different floats
C8_Witness ==
  /\ StepCompleted
  /\ fkind = "osc"
  /\ delta_t = FRat(5, 4)
  /\ FMul(FDivInt(F1, 6), delta_t) # FDivInt(delta_t, 6)

IsPrefix(a, b) == Len(a) <= Len(b) /\ SubSeq(b, 1, Len(a)) = a

StrictlyIncreasingBy(q, h) ==
  \A i \in 2..Len(q) : q[i] = FAdd(q[i - 1], h) /\ FLess(q[i - 1], q[i])

\* C9: throughout iterate() the recorded samples are only appended to (each
\* trajectory is a prefix of every later one), the first sample is (0, y0),
\* the times are strictly increasing, each the one before plus delta_t, and
\* y0 is never modified.
C9_AppendOnlyIncreasing ==
  [][ /\ y0' = y0
      /\ (pc # "idle" /\ pc' # "idle") =>
           /\ IsPrefix(t.v, t'.v)
           /\ IsPrefix(paths.rows, paths'.rows)
      /\ t'.v[1] = F0
      /\ (pc' # "idle" /\ passes' = 1) => paths'.rows[1] = y0
      /\ StrictlyIncreasingBy(t'.v, delta_t) ]_vars

\* C10: once an iterate() has returned, no call of get_paths(),
\* get_diff_paths() or iterate() changes the recorded times or states, and
\* get_paths() returns just these buffers whenever it is called.
C10_ReadOnlyAfterDone ==
  [][ done >= 1 =>
        /\ t' = t
        /\ paths' = paths
        /\ ret'.op = "get_paths" => (ret'.times = t /\ ret'.states = paths) ]_vars

\* a second iterate() on a completed trajectory of several samples has run
\* and ended
C10_Witness ==
  /\ done = 1
  /\ passes = 2
  /\ pc = "idle"
  /\ ret.op = "iterate"
  /\ ret.err = "AttributeError"
  /\ Len(t.v) > 1
  /\ Len(calls) = 4

====
